---- MODULE Spec2Model ----
(***************************************************************************)
(* Model of jules-scratch/verification/verify_theme_switching.py:          *)
(* test_theme_switching launches a persistent browser context with the     *)
(* extension loaded, discovers the extension identifier by scanning the    *)
(* open pages and then the service workers, opens the options page, waits  *)
(* for "Theme" and takes three screenshots around two button clicks.       *)
(*                                                                         *)
(* Strings that the script only compares (titles, button names, paths)     *)
(* are TLA+ strings.  URLs are sequences of tokens: the token "/" is the   *)
(* character "/", every other token is a run of characters without "/".    *)
(* split("/"), startswith and "in" are computed on that sequence.          *)
(***************************************************************************)
EXTENDS Integers, Sequences, FiniteSets, TLC

VARIABLES
    pc,               \* the statement test_theme_switching executes next
    openPages,        \* browser: context.pages as it is now
    openWorkers,      \* browser: context.service_workers as it is now
    pendPages,        \* browser: pages the extension has not opened yet
    pendWorkers,      \* browser: service workers not registered yet
    pages,            \* the list the for loop of line 23 iterates
    workers,          \* the list the for loop of line 33 iterates
    i,                \* position of the loop of line 23
    j,                \* position of the loop of line 33
    extension_id,     \* the local of line 22
    options_page_url, \* the local of line 44
    themeDelay,       \* ms after goto at which "Theme" becomes visible
    log,              \* the automation and os calls issued, in order
    examined,         \* indices of the pages whose url line 24 has read
    consulted,        \* indices of the workers whose url line 34 has read
    scans,            \* how many times line 23 has read context.pages
    wscans,           \* how many times line 33 has read context.service_workers
    raised,           \* every exception raised by a call, in order
    error             \* the exception that ended the run

vars == <<pc, openPages, openWorkers, pendPages, pendWorkers, pages, workers,
          i, j, extension_id, options_page_url, themeDelay, log, examined,
          consulted, scans, wscans, raised, error>>

-----------------------------------------------------------------------------
(* Bounds of the model *)

MaxPages == 2

MaxWorkers == 2

MaxPending == 1

(* Program constants *)

VisibleTimeout == 10000

Never == -1

ExtPrefix == <<"chrome-extension:", "/", "/">>

ProductTitle == "Password Memo"

CouldNotFind == "Could not find extension ID"

TimeoutError == "TimeoutError"

NoError == "none"

Shot1 == "jules-scratch/verification/01_default_theme.png"

Shot2 == "jules-scratch/verification/02_light_theme.png"

Shot3 == "jules-scratch/verification/03_dark_theme.png"

-----------------------------------------------------------------------------
(* The environment: what the browser can expose *)

UrlBlank == <<"about:blank">>

UrlPopupA == ExtPrefix \o <<"abc", "/", "popup.html">>

UrlPopupB == ExtPrefix \o <<"def", "/", "popup.html">>

UrlPopupNoHost == ExtPrefix \o <<"/", "popup.html">>

UrlBackgroundA == ExtPrefix \o <<"abc", "/", "background.js">>

UrlBackgroundB == ExtPrefix \o <<"def", "/", "background.js">>

UrlOtherWorker == ExtPrefix \o <<"abc", "/", "sw.js">>

UrlBackgroundNoHost == ExtPrefix \o <<"/", "background.js">>

Page(u, t, r) == [url |-> u, title |-> t, titleRaises |-> r]

PageKinds ==
    { Page(UrlBlank, "", FALSE),
      Page(UrlPopupA, ProductTitle, FALSE),
      Page(UrlPopupB, ProductTitle, FALSE),
      Page(UrlPopupA, "Options", FALSE),
      Page(UrlPopupA, "", TRUE),
      Page(UrlPopupNoHost, ProductTitle, FALSE) }

Worker(u) == [url |-> u]

WorkerKinds ==
    { Worker(UrlBackgroundA), Worker(UrlBackgroundB),
      Worker(UrlOtherWorker), Worker(UrlBackgroundNoHost) }

ThemeDelays == {3000, 20000, Never}

SeqsUpTo(S, n) == UNION { [1..k -> S] : k \in 0..n }

-----------------------------------------------------------------------------
(* String operations of the script *)

\* str.startswith
StartsWith(s, p) == Len(s) >= Len(p) /\ SubSeq(s, 1, Len(p)) = p

\* the tokens in which the substring "background" occurs
HasBackground(tok) == tok \in {"background.js", "background.html"}

\* "background" in url
ContainsBackground(u) == \E k \in 1..Len(u) : HasBackground(u[k])

\* str.split("/"): the pieces between the "/" characters, each a token sequence
RECURSIVE SplitFrom(_, _, _)
SplitFrom(s, k, cur) ==
    IF k > Len(s) THEN <<cur>>
    ELSE IF s[k] = "/" THEN <<cur>> \o SplitFrom(s, k + 1, <<>>)
    ELSE SplitFrom(s, k + 1, Append(cur, s[k]))

Split(s) == SplitFrom(s, 1, <<>>)

\* Python values of extension_id: None or a str
PyNone == [isNone |-> TRUE, s |-> <<>>]

PyStr(s) == [isNone |-> FALSE, s |-> s]

\* variant: the test written as "extension_id is None"
IsNone(x) == x.isNone

\* not extension_id
Falsy(x) == x.isNone \/ x.s = <<>>

\* f"chrome-extension://{extension_id}/options.html"
OptionsUrl(id) == ExtPrefix \o id.s \o <<"/", "options.html">>

-----------------------------------------------------------------------------
(* Calls and exceptions *)

CallRec(op, arg) == [op |-> op, arg |-> arg]

Terminal == {"done", "aborted"}

\* an exception leaves test_theme_switching: nothing catches it
Raise(e) ==
    /\ pc' = "aborted"
    /\ error' = e
    /\ raised' = Append(raised, e)

Proceed(next) ==
    /\ pc' = next
    /\ UNCHANGED <<error, raised>>

\* a call into the automation layer: it returns, or it raises
Call(op, arg, next) ==
    /\ log' = Append(log, CallRec(op, arg))
    /\ \/ Proceed(next)
       \/ Raise(op)

-----------------------------------------------------------------------------
Init ==
    /\ pc = "launch"
    /\ openPages \in SeqsUpTo(PageKinds, MaxPages)
    /\ openWorkers \in SeqsUpTo(WorkerKinds, MaxWorkers)
    /\ pendPages = <<>>
    /\ pendWorkers = <<>>
    /\ pages = <<>>
    /\ workers = <<>>
    /\ i = 0
    /\ j = 0
    /\ extension_id = PyNone
    /\ options_page_url = <<>>
    /\ themeDelay = Never
    /\ log = <<>>
    /\ examined = <<>>
    /\ consulted = <<>>
    /\ scans = 0
    /\ wscans = 0
    /\ raised = <<>>
    /\ error = NoError

\* line 10: p.chromium.launch_persistent_context(...)
Launch ==
    /\ pc = "launch"
    /\ Call("launch_persistent_context", "/tmp/test-user-data-dir", "sleep")
    /\ UNCHANGED <<openPages, openWorkers, pendPages, pendWorkers, pages,
                   workers, i, j, extension_id, options_page_url, themeDelay,
                   examined, consulted, scans, wscans>>

\* line 19: time.sleep(2)
Sleep ==
    /\ pc = "sleep"
    /\ pc' = "for_pages"
    /\ UNCHANGED <<openPages, openWorkers, pendPages, pendWorkers, pages,
                   workers, i, j, extension_id, options_page_url, themeDelay,
                   log, examined, consulted, scans, wscans, raised, error>>

\* lines 22-23: extension_id = None; for page in context.pages
ForPages ==
    /\ pc = "for_pages"
    /\ extension_id' = PyNone
    /\ pages' = openPages
    /\ i' = 1
    /\ scans' = scans + 1
    /\ pc' = "page_iter"
    /\ UNCHANGED <<openPages, openWorkers, pendPages, pendWorkers, workers, j,
                   options_page_url, themeDelay, log, examined, consulted,
                   wscans, raised, error>>

\* variant: the loop of line 23 without the break of line 28
PageIterNoBreak ==
    /\ pc = "page_iter"
    /\ IF i > Len(pages)
       THEN /\ pc' = "if_not_id_1"
            /\ UNCHANGED <<i, extension_id, examined, raised>>
       ELSE /\ examined' = Append(examined, i)
            /\ i' = i + 1
            /\ pc' = "page_iter"
            /\ raised' = IF StartsWith(pages[i].url, ExtPrefix)
                            /\ pages[i].titleRaises
                         THEN Append(raised, "title") ELSE raised
            /\ extension_id' =
                   IF StartsWith(pages[i].url, ExtPrefix)
                      /\ ~pages[i].titleRaises
                      /\ pages[i].title = ProductTitle
                   THEN PyStr(Split(pages[i].url)[3]) ELSE extension_id
    /\ UNCHANGED <<openPages, openWorkers, pendPages, pendWorkers, pages,
                   workers, j, options_page_url, themeDelay, log, consulted,
                   scans, wscans, error>>

\* lines 23-30: one iteration of the loop over the pages, or its end
PageIter ==
    /\ pc = "page_iter"
    /\ IF i > Len(pages)
       THEN /\ pc' = "if_not_id_1"
            /\ UNCHANGED <<i, extension_id, examined, raised>>
       ELSE /\ examined' = Append(examined, i)
            /\ IF ~StartsWith(pages[i].url, ExtPrefix)
               THEN /\ i' = i + 1
                    /\ pc' = "page_iter"
                    /\ UNCHANGED <<extension_id, raised>>
               ELSE IF pages[i].titleRaises
               THEN \* except Exception: pass
                    /\ raised' = Append(raised, "title")
                    /\ i' = i + 1
                    /\ pc' = "page_iter"
                    /\ UNCHANGED extension_id
               ELSE IF pages[i].title = ProductTitle
               THEN \* extension_id = page.url.split("/")[2]; break
                    /\ extension_id' = PyStr(Split(pages[i].url)[3])
                    /\ pc' = "if_not_id_1"
                    /\ UNCHANGED <<i, raised>>
               ELSE /\ i' = i + 1
                    /\ pc' = "page_iter"
                    /\ UNCHANGED <<extension_id, raised>>
    /\ UNCHANGED <<openPages, openWorkers, pendPages, pendWorkers, pages,
                   workers, j, options_page_url, themeDelay, log, consulted,
                   scans, wscans, error>>

\* variant: the service workers are scanned whatever the page loop found
IfNotId1Always ==
    /\ pc = "if_not_id_1"
    /\ workers' = openWorkers
    /\ j' = 1
    /\ wscans' = wscans + 1
    /\ pc' = "worker_iter"
    /\ UNCHANGED <<openPages, openWorkers, pendPages, pendWorkers, pages, i,
                   extension_id, options_page_url, themeDelay, log, examined,
                   consulted, scans, raised, error>>

\* lines 32-33: if not extension_id: for target in context.service_workers
IfNotId1 ==
    /\ pc = "if_not_id_1"
    /\ IF Falsy(extension_id)
       THEN /\ workers' = openWorkers
            /\ j' = 1
            /\ wscans' = wscans + 1
            /\ pc' = "worker_iter"
       ELSE /\ pc' = "if_not_id_2"
            /\ UNCHANGED <<workers, j, wscans>>
    /\ UNCHANGED <<openPages, openWorkers, pendPages, pendWorkers, pages, i,
                   extension_id, options_page_url, themeDelay, log, examined,
                   consulted, scans, raised, error>>

\* lines 33-36: one iteration of the loop over the service workers, or its end
WorkerIter ==
    /\ pc = "worker_iter"
    /\ IF j > Len(workers)
       THEN /\ pc' = "if_not_id_2"
            /\ UNCHANGED <<j, extension_id, consulted, raised, error>>
       ELSE /\ consulted' = Append(consulted, j)
            /\ IF ~ContainsBackground(workers[j].url)
               THEN /\ j' = j + 1
                    /\ pc' = "worker_iter"
                    /\ UNCHANGED <<extension_id, raised, error>>
               ELSE IF Len(Split(workers[j].url)) < 3
               THEN \* split("/")[2] on fewer than three pieces
                    /\ Raise("IndexError")
                    /\ UNCHANGED <<j, extension_id>>
               ELSE \* extension_id = target.url.split("/")[2]; break
                    /\ extension_id' = PyStr(Split(workers[j].url)[3])
                    /\ pc' = "if_not_id_2"
                    /\ UNCHANGED <<j, raised, error>>
    /\ UNCHANGED <<openPages, openWorkers, pendPages, pendWorkers, pages,
                   workers, i, options_page_url, themeDelay, log, examined,
                   scans, wscans>>

\* variant: line 39 missing, the script goes on without an identifier
IfNotId2NoRaise ==
    /\ pc = "if_not_id_2"
    /\ Proceed("build_url")
    /\ UNCHANGED <<openPages, openWorkers, pendPages, pendWorkers, pages,
                   workers, i, j, extension_id, options_page_url, themeDelay,
                   log, examined, consulted, scans, wscans>>

\* variant: sleep and scan again until an identifier is found
IfNotId2Retry ==
    /\ pc = "if_not_id_2"
    /\ IF Falsy(extension_id)
       THEN Proceed("sleep")
       ELSE Proceed("build_url")
    /\ UNCHANGED <<openPages, openWorkers, pendPages, pendWorkers, pages,
                   workers, i, j, extension_id, options_page_url, themeDelay,
                   log, examined, consulted, scans, wscans>>

\* variant: wait for the identifier without rescanning and without a bound
IfNotId2Hang ==
    /\ pc = "if_not_id_2"
    /\ IF Falsy(extension_id)
       THEN UNCHANGED <<pc, error, raised>>
       ELSE Proceed("build_url")
    /\ UNCHANGED <<openPages, openWorkers, pendPages, pendWorkers, pages,
                   workers, i, j, extension_id, options_page_url, themeDelay,
                   log, examined, consulted, scans, wscans>>

\* lines 38-39: if not extension_id: raise Exception("Could not find extension ID")
IfNotId2 ==
    /\ pc = "if_not_id_2"
    /\ IF Falsy(extension_id)
       THEN Raise(CouldNotFind)
       ELSE Proceed("build_url")
    /\ UNCHANGED <<openPages, openWorkers, pendPages, pendWorkers, pages,
                   workers, i, j, extension_id, options_page_url, themeDelay,
                   log, examined, consulted, scans, wscans>>

\* lines 41-45: the two prints and options_page_url
BuildUrl ==
    /\ pc = "build_url"
    /\ options_page_url' = OptionsUrl(extension_id)
    /\ pc' = "new_page"
    /\ UNCHANGED <<openPages, openWorkers, pendPages, pendWorkers, pages,
                   workers, i, j, extension_id, themeDelay, log, examined,
                   consulted, scans, wscans, raised, error>>

\* what the calls after discovery leave alone
AfterDiscoveryUnchanged ==
    UNCHANGED <<openPages, openWorkers, pendPages, pendWorkers, pages, workers,
                i, j, extension_id, options_page_url, examined, consulted,
                scans, wscans>>

\* line 46: page = context.new_page()
NewPage ==
    /\ pc = "new_page"
    /\ Call("new_page", "", "goto")
    /\ UNCHANGED themeDelay
    /\ AfterDiscoveryUnchanged

\* line 47: page.goto(options_page_url); the page then renders "Theme"
\* after some delay, or never
Goto ==
    /\ pc = "goto"
    /\ log' = Append(log, CallRec("goto", "options_page_url"))
    /\ \/ /\ Proceed("expect")
          /\ \E d \in ThemeDelays : themeDelay' = d
       \/ /\ Raise("goto")
          /\ UNCHANGED themeDelay
    /\ AfterDiscoveryUnchanged

\* variant: a wait that ignores its timeout
VisibleEventually(d, timeout) == d # Never

\* whether the text shows up within the timeout of to_be_visible
VisibleWithin(d, timeout) == d # Never /\ d <= timeout

\* variant: the wait wrapped in try/finally with context.close()
ExpectVisibleFinally ==
    /\ pc = "expect"
    /\ IF VisibleWithin(themeDelay, VisibleTimeout)
       THEN /\ log' = Append(log, CallRec("expect_visible", "Theme"))
            /\ Proceed("makedirs")
       ELSE /\ log' = log \o <<CallRec("expect_visible", "Theme"),
                               CallRec("close", "")>>
            /\ Raise(TimeoutError)
    /\ UNCHANGED themeDelay
    /\ AfterDiscoveryUnchanged

\* line 50: expect(page.get_by_text("Theme")).to_be_visible(timeout=10000)
ExpectVisible ==
    /\ pc = "expect"
    /\ log' = Append(log, CallRec("expect_visible", "Theme"))
    /\ IF VisibleWithin(themeDelay, VisibleTimeout)
       THEN Proceed("makedirs")
       ELSE Raise(TimeoutError)
    /\ UNCHANGED themeDelay
    /\ AfterDiscoveryUnchanged

\* line 53: os.makedirs("jules-scratch/verification", exist_ok=True)
MakeDirs ==
    /\ pc = "makedirs"
    /\ Call("makedirs", "jules-scratch/verification", "screenshot_1")
    /\ UNCHANGED themeDelay
    /\ AfterDiscoveryUnchanged

\* line 56
Screenshot1 ==
    /\ pc = "screenshot_1"
    /\ Call("screenshot", Shot1, "click_light")
    /\ UNCHANGED themeDelay
    /\ AfterDiscoveryUnchanged

\* variant: the click wrapped in try/except: pass
ClickLightSwallowed ==
    /\ pc = "click_light"
    /\ log' = Append(log, CallRec("click", "Light"))
    /\ pc' = "screenshot_2"
    /\ \/ UNCHANGED <<error, raised>>
       \/ /\ raised' = Append(raised, "click")
          /\ UNCHANGED error
    /\ UNCHANGED themeDelay
    /\ AfterDiscoveryUnchanged

\* line 59
ClickLight ==
    /\ pc = "click_light"
    /\ Call("click", "Light", "screenshot_2")
    /\ UNCHANGED themeDelay
    /\ AfterDiscoveryUnchanged

\* variant: the second screenshot written over the first one's file
Screenshot2Overwrite ==
    /\ pc = "screenshot_2"
    /\ Call("screenshot", Shot1, "click_dark")
    /\ UNCHANGED themeDelay
    /\ AfterDiscoveryUnchanged

\* line 60
Screenshot2 ==
    /\ pc = "screenshot_2"
    /\ Call("screenshot", Shot2, "click_dark")
    /\ UNCHANGED themeDelay
    /\ AfterDiscoveryUnchanged

\* line 63
ClickDark ==
    /\ pc = "click_dark"
    /\ Call("click", "Dark", "screenshot_3")
    /\ UNCHANGED themeDelay
    /\ AfterDiscoveryUnchanged

\* line 64
Screenshot3 ==
    /\ pc = "screenshot_3"
    /\ Call("screenshot", Shot3, "close")
    /\ UNCHANGED themeDelay
    /\ AfterDiscoveryUnchanged

\* line 66: context.close(), the last statement
Close ==
    /\ pc = "close"
    /\ log' = Append(log, CallRec("close", ""))
    /\ Proceed("done")
    /\ UNCHANGED themeDelay
    /\ AfterDiscoveryUnchanged

Next ==
    \/ Launch
    \/ Sleep
    \/ ForPages
    \/ PageIter
    \/ IfNotId1
    \/ WorkerIter
    \/ IfNotId2
    \/ BuildUrl
    \/ NewPage
    \/ Goto
    \/ ExpectVisible
    \/ MakeDirs
    \/ Screenshot1
    \/ ClickLight
    \/ Screenshot2
    \/ ClickDark
    \/ Screenshot3
    \/ Close

Spec == Init /\ [][Next]_vars

\* the script is one thread that keeps running until it returns or raises
FairSpec == Spec /\ WF_vars(Next)

-----------------------------------------------------------------------------
(* The browser as a separate process: the extension's page and background  *)
(* service worker appear in context.pages / context.service_workers at a   *)
(* time of the browser's choosing after the launch.                        *)

RaceOpenPages == SeqsUpTo({Page(UrlBlank, "", FALSE)}, 1)

RaceOpenWorkers == SeqsUpTo({Worker(UrlOtherWorker)}, 1)

RacePendPages == SeqsUpTo({Page(UrlPopupA, ProductTitle, FALSE)}, MaxPending)

RacePendWorkers == SeqsUpTo({Worker(UrlBackgroundA)}, MaxPending)

InitRace ==
    /\ pc = "launch"
    /\ openPages \in RaceOpenPages
    /\ openWorkers \in RaceOpenWorkers
    /\ pendPages \in RacePendPages
    /\ pendWorkers \in RacePendWorkers
    /\ pages = <<>>
    /\ workers = <<>>
    /\ i = 0
    /\ j = 0
    /\ extension_id = PyNone
    /\ options_page_url = <<>>
    /\ themeDelay = Never
    /\ log = <<>>
    /\ examined = <<>>
    /\ consulted = <<>>
    /\ scans = 0
    /\ wscans = 0
    /\ raised = <<>>
    /\ error = NoError

\* the browser opens the next extension page
RegisterPage ==
    /\ pc \notin Terminal
    /\ pc # "launch"
    /\ pendPages # <<>>
    /\ openPages' = Append(openPages, Head(pendPages))
    /\ pendPages' = Tail(pendPages)
    /\ UNCHANGED <<pc, openWorkers, pendWorkers, pages, workers, i, j,
                   extension_id, options_page_url, themeDelay, log, examined,
                   consulted, scans, wscans, raised, error>>

\* the browser starts the next service worker
RegisterWorker ==
    /\ pc \notin Terminal
    /\ pc # "launch"
    /\ pendWorkers # <<>>
    /\ openWorkers' = Append(openWorkers, Head(pendWorkers))
    /\ pendWorkers' = Tail(pendWorkers)
    /\ UNCHANGED <<pc, openPages, pendPages, pages, workers, i, j,
                   extension_id, options_page_url, themeDelay, log, examined,
                   consulted, scans, wscans, raised, error>>

NextRace ==
    \/ Next
    \/ RegisterPage
    \/ RegisterWorker

SpecRace == InitRace /\ [][NextRace]_vars

-----------------------------------------------------------------------------
(* Vocabulary of the properties, stated on the browser's lists and on the  *)
(* calls issued, not on the loops' own variables                           *)

\* a page whose URL uses the extension scheme and whose title is the product name
Matches(p) ==
    /\ StartsWith(p.url, ExtPrefix)
    /\ ~p.titleRaises
    /\ p.title = ProductTitle

MatchIdx(ps) == { k \in 1..Len(ps) : Matches(ps[k]) }

BgIdx(ws) == { k \in 1..Len(ws) : ContainsBackground(ws[k].url) }

Least(S) == CHOOSE k \in S : \A m \in S : k <= m

\* the third "/"-separated piece of a URL
ThirdPiece(u) == Split(u)[3]

\* the identifier the first matching page carries; empty when no page matches
PageId(ps) ==
    IF MatchIdx(ps) = {} THEN <<>> ELSE ThirdPiece(ps[Least(MatchIdx(ps))].url)

\* the identifier the first background worker carries; empty when there is none
WorkerId(ws) ==
    IF BgIdx(ws) = {} THEN <<>> ELSE ThirdPiece(ws[Least(BgIdx(ws))].url)

Ops == { log[k].op : k \in DOMAIN log }

OpsOf(S) == SelectSeq(log, LAMBDA c : c.op \in S)

LaterOps ==
    {"new_page", "goto", "expect_visible", "makedirs", "screenshot", "click",
     "close"}

\* the statements after discovery
PostDiscovery ==
    {"build_url", "new_page", "goto", "expect", "makedirs", "screenshot_1",
     "click_light", "screenshot_2", "click_dark", "screenshot_3", "close",
     "done"}

LaunchFailed == "launch_persistent_context" \in { raised[k] : k \in DOMAIN raised }

\* discovery decided on an identifier and the script went on with it
Discovered == pc \in PostDiscovery \/ "new_page" \in Ops

\* options_page_url has been built
FromNavigation == pc \in (PostDiscovery \ {"build_url"}) \/ "new_page" \in Ops

Interaction ==
    << CallRec("screenshot", Shot1), CallRec("click", "Light"),
       CallRec("screenshot", Shot2), CallRec("click", "Dark"),
       CallRec("screenshot", Shot3) >>

InteractionLog == OpsOf({"screenshot", "click"})

IsPrefix(a, b) == Len(a) <= Len(b) /\ a = SubSeq(b, 1, Len(a))

NoRepeat(q) == \A a, b \in DOMAIN q : q[a] = q[b] => a = b

CloseCount == Len(OpsOf({"close"}))

UpTo(n) == [k \in 1..n |-> k]

-----------------------------------------------------------------------------
\* C1: when neither the open pages nor the service workers yield an
\* identifier, no later step (new_page, goto, wait, screenshot, click, close)
\* is ever issued and a run whose launch succeeded ends aborted with
\* "Could not find extension ID".
C1_NoIdentifierAborts ==
    (PageId(openPages) = <<>> /\ WorkerId(openWorkers) = <<>>) =>
        /\ Ops \cap LaterOps = {}
        /\ pc \notin PostDiscovery
        /\ (pc \in Terminal /\ ~LaunchFailed =>
                pc = "aborted" /\ error = CouldNotFind)

\* a run that scanned pages and workers, found nothing and aborted
C1_Witness ==
    /\ pc = "aborted"
    /\ error = CouldNotFind
    /\ examined # <<>>
    /\ consulted # <<>>
    /\ MatchIdx(openPages) # {}

\* C2 as stated: whenever some page matches, the identifier is taken from a
\* matching page and the service workers are consulted only when no page
\* matched; in the fallback the identifier comes from a background worker.
C2_AnyMatchingPageWins ==
    /\ (wscans > 0 => MatchIdx(openPages) = {})
    /\ (Discovered /\ MatchIdx(openPages) # {} =>
            \E k \in MatchIdx(openPages) :
                extension_id = PyStr(ThirdPiece(openPages[k].url)))
    /\ (Discovered /\ wscans > 0 =>
            \E k \in BgIdx(openWorkers) :
                extension_id = PyStr(ThirdPiece(openWorkers[k].url)))

\* C2 amended: whenever the first matching page carries a non-empty
\* identifier, the identifier used for navigation is that page's and the
\* service workers are never consulted; they are consulted only when the page
\* scan produced no non-empty identifier, and then the identifier comes from a
\* service worker whose URL contains "background".
C2_PagePreferred ==
    /\ (wscans > 0 => PageId(openPages) = <<>>)
    /\ (Discovered /\ PageId(openPages) # <<>> =>
            /\ extension_id = PyStr(PageId(openPages))
            /\ wscans = 0
            /\ consulted = <<>>)
    /\ (Discovered /\ wscans > 0 =>
            \E k \in BgIdx(openWorkers) :
                extension_id = PyStr(ThirdPiece(openWorkers[k].url)))

\* a page supplied the identifier although a background worker with another
\* identifier was running
C2_Witness ==
    /\ "goto" \in Ops
    /\ PageId(openPages) # <<>>
    /\ WorkerId(openWorkers) # <<>>
    /\ WorkerId(openWorkers) # PageId(openPages)

\* C3 as stated: every exception raised by any call aborts the run.
C3_EveryFailureAborts ==
    raised # <<>> => pc = "aborted" /\ error = raised[Len(raised)]

\* C3 amended: every exception except one raised by page.title() during
\* discovery aborts the run at once (a title() failure is swallowed and the
\* scan moves on to the next page), and nothing is executed a second time.
C3_OnlyTitleSuppressed ==
    /\ \A k \in DOMAIN raised :
           raised[k] # "title" =>
               k = Len(raised) /\ pc = "aborted" /\ error = raised[k]
    /\ (pc = "aborted" => raised # <<>> /\ error = raised[Len(raised)])
    /\ NoRepeat(log)
    /\ NoRepeat(examined)
    /\ NoRepeat(consulted)
    /\ scans <= 1
    /\ wscans <= 1

\* a title() failure was swallowed, the run went on and a later click failed
C3_Witness ==
    /\ pc = "aborted"
    /\ error = "click"
    /\ raised = <<"title", "click">>

\* C4: the screenshots and clicks issued are always a prefix of
\* 01_default_theme.png, Light, 02_light_theme.png, Dark, 03_dark_theme.png;
\* nothing but the final close follows the first of them, and a completed
\* run has issued all five.
C4_InteractionOrder ==
    /\ IsPrefix(InteractionLog, Interaction)
    /\ (pc = "done" => InteractionLog = Interaction)
    /\ \A k \in DOMAIN log :
           log[k].op \in {"screenshot", "click"} =>
               /\ \A m \in (k + 1)..Len(log) :
                      log[m].op \in {"screenshot", "click", "close"}
               /\ \E m \in 1..(k - 1) : log[m].op = "expect_visible"

\* a completed run
C4_Witness ==
    /\ pc = "done"
    /\ Len(InteractionLog) = 5
    /\ log[Len(log)].op = "close"

\* C5: when "Theme" does not show within the timeout the wait aborts the run
\* with a timeout error, and no directory is created, no screenshot taken and
\* no button clicked unless the wait has seen "Theme" in time.
C5_WaitGates ==
    /\ ("expect_visible" \in Ops /\ (themeDelay = Never \/ themeDelay > 10000)
            => pc = "aborted" /\ error = TimeoutError)
    /\ (Ops \cap {"makedirs", "screenshot", "click"} # {}
            => /\ "expect_visible" \in Ops
               /\ themeDelay # Never
               /\ themeDelay <= 10000)

\* "Theme" showed up, but only after the bound: the run timed out
C5_Witness ==
    /\ pc = "aborted"
    /\ error = TimeoutError
    /\ themeDelay > 10000
    /\ Ops \cap {"makedirs", "screenshot", "click"} = {}

C7_SingleScan ==
    /\ scans <= 1
    /\ wscans <= 1
    /\ NoRepeat(examined)
    /\ (pc = "aborted" /\ ~LaunchFailed /\ PageId(pages) = <<>>
            /\ WorkerId(workers) = <<>> => error = CouldNotFind)
    /\ (Discovered => PageId(pages) # <<>> \/ WorkerId(workers) # <<>>)

\* the extension's page and background worker were registered by the browser,
\* but only after the script had read the lists: the run aborted
C7_Witness ==
    /\ pc = "aborted"
    /\ error = CouldNotFind
    /\ PageId(openPages) # <<>>
    /\ WorkerId(openWorkers) # <<>>
    /\ pendPages = <<>>
    /\ pendWorkers = <<>>

\* no context of the extension is open
NoExtensionContext ==
    /\ \A k \in 1..Len(openPages) : ~StartsWith(openPages[k].url, ExtPrefix)
    /\ \A k \in 1..Len(openWorkers) : ~StartsWith(openWorkers[k].url, ExtPrefix)

AfterPageLoop == scans > 0 /\ pc # "page_iter"

\* the loop over the service workers has run and ended
AfterWorkerLoop == wscans > 0 /\ pc # "worker_iter"

\* C9: once the page loop has ended with some page matching, exactly the
\* pages up to the first matching one were examined and the loop's identifier
\* is that page's; in the fallback exactly the workers up to the first one
\* with "background" were examined and the identifier is that worker's.
C9_FirstFoundWins ==
    /\ (AfterPageLoop /\ MatchIdx(openPages) # {} =>
            /\ examined = UpTo(Least(MatchIdx(openPages)))
            /\ (wscans = 0 => extension_id = PyStr(PageId(openPages))))
    /\ (AfterWorkerLoop /\ BgIdx(openWorkers) # {} =>
            /\ consulted = UpTo(Least(BgIdx(openWorkers)))
            /\ extension_id = PyStr(WorkerId(openWorkers)))

\* two matching pages with different identifiers: the first one's is used
C9_Witness ==
    /\ "goto" \in Ops
    /\ Cardinality(MatchIdx(openPages)) >= 2
    /\ \E k \in MatchIdx(openPages) :
           ThirdPiece(openPages[k].url) # PageId(openPages)
    /\ extension_id = PyStr(PageId(openPages))

\* C10: from navigation onward the identifier is a non-empty string, the
\* third piece of the URL of a matching page or of a background worker, and
\* the URL navigated to is "chrome-extension://" + identifier +
\* "/options.html"; an empty identifier from a matching page sends discovery
\* to the service workers.
C10_IdentifierWellFormed ==
    /\ (FromNavigation =>
            /\ ~extension_id.isNone
            /\ extension_id.s # <<>>
            /\ \/ \E k \in MatchIdx(openPages) :
                      extension_id.s = ThirdPiece(openPages[k].url)
               \/ \E k \in BgIdx(openWorkers) :
                      extension_id.s = ThirdPiece(openWorkers[k].url)
            /\ options_page_url =
                   ExtPrefix \o extension_id.s \o <<"/", "options.html">>)
    /\ (AfterPageLoop /\ pc # "if_not_id_1" /\ MatchIdx(openPages) # {}
            /\ PageId(openPages) = <<>> => wscans = 1)

\* the first matching page carried an empty identifier; the fallback found one
C10_Witness ==
    /\ "goto" \in Ops
    /\ MatchIdx(openPages) # {}
    /\ PageId(openPages) = <<>>
    /\ extension_id = PyStr(WorkerId(openWorkers))

====
